---- MODULE Spec2Model ----
(***************************************************************************)
(* Hybrid retrieval pipeline of the FPL assistant: parameter               *)
(* normalisation, intent classification and structured retrieval           *)
(* (fpl_agent_baseline.py), the orchestrator (fpl_agent_hybrid.py) and     *)
(* the embedding search (fpl_agent_embeddings.py).                         *)
(***************************************************************************)
EXTENDS Integers, Sequences, FiniteSets, TLC

VARIABLES
    \* one call of normalize_params
    raw,              \* the raw parameters handed in
    cleaned,          \* what the call returned or raised
    npc,              \* "call" before the call, "done" after it, "again"
                      \* after a second call on the returned mapping
    \* one turn of the baseline assistant's question loop
    bpc,              \* "ask", "classified", "answered" or "system_error"
    raw_response,     \* the text the classifier model call returned
    structured_data,  \* what parse_user_intent returned or raised
    answer,           \* what execute_query returned or raised
    \* the graph store: drivers opened and closed, queries received
    store,
    \* one call of process_query
    pc,               \* "start", "classified", "structured", "semantic",
                      \* "returned" or "raised"
    args,             \* user_query, llm_key, emb_key, use_cypher, use_vector
                      \* and whether the Google provider library imported
    logs,             \* the logs dict
    cypher_results,   \* rows of the structured channel
    vector_results,   \* chunks of the semantic channel
    trace,            \* what process_query returned or raised
    calls,            \* model, retriever and index calls made so far
    \* one call of semantic_search by the embedding assistant
    spc,              \* "call" before semantic_search, "done" after it
    user_q,           \* the question typed in
    found,            \* what the index did with the similarity search
    main_docs,        \* what semantic_search returned or raised
    \* one call of format_context
    mpc,              \* "call" before the call, "done" after it
    merge_in,         \* the rows and the chunks handed in
    context,          \* the context text returned
    \* the chat page of app.py
    use_cypher,       \* the checkbox "Baseline (Structured)"
    use_vector,       \* the checkbox "Semantic (Vector)"
    llm_widget,       \* the option held by the selectbox "LLM Model:"
    emb_widget,       \* the option held by the selectbox "Embedding Model:"
    messages,         \* st.session_state.messages, the role of each
    requests          \* the arguments of each process_query call made

nvars == <<raw, cleaned, npc>>
bvars == <<bpc, raw_response, structured_data, answer>>
hvars == <<pc, args, logs, cypher_results, vector_results, trace, calls>>
svars == <<spc, user_q, found, main_docs>>
mvars == <<mpc, merge_in, context>>
avars == <<use_cypher, use_vector, llm_widget, emb_widget, messages, requests>>
vars == <<raw, cleaned, npc, bpc, raw_response, structured_data, answer, store,
          pc, args, logs, cypher_results, vector_results, trace, calls,
          spc, user_q, found, main_docs, mpc, merge_in, context,
          use_cypher, use_vector, llm_widget, emb_widget, messages, requests>>

(***************************************************************************)
(* Bounds of the model.                                                    *)
(***************************************************************************)
\* largest number of entries of a raw parameter mapping
MaxKeys == 2
\* largest number of rows the graph store yields for one query
MaxRows == 3
\* number of chunks asked of the semantic index (TOP_K of the configuration)
TopK == 2

(***************************************************************************)
(* Python values.  A value is a record tagged with its Python type; a dict *)
(* is the sequence of its entries in insertion order.                      *)
(***************************************************************************)
StrV(s) == [t |-> "str", v |-> s]
IntV(n) == [t |-> "int", v |-> n]
BoolV(b) == [t |-> "bool", v |-> b]
\* a float literal: sign, integral part, fraction digits
FloatV(neg, ipart, frac) == [t |-> "float", v |-> <<neg, ipart, frac>>]
NoneV == [t |-> "none", v |-> "None"]
ListV(l) == [t |-> "list", v |-> l]
DictV(d) == [t |-> "dict", v |-> d]

Entry(k, v) == [k |-> k, v |-> v]

DictHas(d, k) == \E i \in 1..Len(d) : d[i].k = k

DictGet(d, k) == d[CHOOSE i \in 1..Len(d) : d[i].k = k].v

\* d[k] = v: an existing key keeps its position, a new key goes last
DictSet(d, k, v) ==
    IF DictHas(d, k)
    THEN [i \in 1..Len(d) |-> IF d[i].k = k THEN Entry(k, v) ELSE d[i]]
    ELSE Append(d, Entry(k, v))

DictKeys(d) == {d[i].k : i \in 1..Len(d)}

\* truth value of a Python object, as `not x` sees it
Truthy(x) ==
    CASE x.t = "none" -> FALSE
      [] x.t = "bool" -> x.v
      [] x.t = "int" -> x.v # 0
      [] x.t = "float" -> ~(x.v[2] = 0 /\ x.v[3] \in {"", "0"})
      [] x.t = "str" -> Len(x.v) > 0
      [] x.t = "list" -> Len(x.v) > 0
      [] x.t = "dict" -> Len(x.v) > 0
      [] OTHER -> TRUE

(***************************************************************************)
(* Strings.  A string is a TLA+ string; its i-th character is the string   *)
(* SubSeq(s, i, i).                                                        *)
(***************************************************************************)
\* the characters i..j of s, clipped to the string like a Python slice
Slice(s, i, j) ==
    LET lo == IF i < 1 THEN 1 ELSE i
        hi == IF j > Len(s) THEN Len(s) ELSE j
    IN  IF lo > hi THEN "" ELSE SubSeq(s, lo, hi)

Ch(s, i) == IF i >= 1 /\ i <= Len(s) THEN SubSeq(s, i, i) ELSE ""

LowerChar(c) ==
    CASE c = "A" -> "a" [] c = "B" -> "b" [] c = "C" -> "c" [] c = "D" -> "d"
      [] c = "E" -> "e" [] c = "F" -> "f" [] c = "G" -> "g" [] c = "H" -> "h"
      [] c = "I" -> "i" [] c = "J" -> "j" [] c = "K" -> "k" [] c = "L" -> "l"
      [] c = "M" -> "m" [] c = "N" -> "n" [] c = "O" -> "o" [] c = "P" -> "p"
      [] c = "Q" -> "q" [] c = "R" -> "r" [] c = "S" -> "s" [] c = "T" -> "t"
      [] c = "U" -> "u" [] c = "V" -> "v" [] c = "W" -> "w" [] c = "X" -> "x"
      [] c = "Y" -> "y" [] c = "Z" -> "z" [] OTHER -> c

\* the characters lo..hi of s in lower case, by halves
RECURSIVE LowerRange(_, _, _)
LowerRange(s, lo, hi) ==
    IF lo > hi THEN ""
    ELSE IF lo = hi THEN LowerChar(Ch(s, lo))
    ELSE LowerRange(s, lo, (lo + hi) \div 2)
             \o LowerRange(s, ((lo + hi) \div 2) + 1, hi)

\* str.lower()
Lower(s) == LowerRange(s, 1, Len(s))

\* least element of a non-empty set of integers
Least(S) == CHOOSE x \in S : \A y \in S : x <= y

\* `sub in s` for strings
Contains(sub, s) ==
    \E i \in 0..(Len(s) - Len(sub)) : Slice(s, i + 1, i + Len(sub)) = sub

IsSpace(c) == c \in {" ", "\n", "\t", "\r"}

RECURSIVE LStrip(_)
LStrip(s) ==
    IF Len(s) > 0 /\ IsSpace(Ch(s, 1)) THEN LStrip(Slice(s, 2, Len(s))) ELSE s

RECURSIVE RStrip(_)
RStrip(s) ==
    IF Len(s) > 0 /\ IsSpace(Ch(s, Len(s)))
    THEN RStrip(Slice(s, 1, Len(s) - 1)) ELSE s

\* str.strip()
Strip(s) == RStrip(LStrip(s))

IsDigit(c) == c \in {"0", "1", "2", "3", "4", "5", "6", "7", "8", "9"}

DigitVal(c) ==
    CASE c = "0" -> 0 [] c = "1" -> 1 [] c = "2" -> 2 [] c = "3" -> 3
      [] c = "4" -> 4 [] c = "5" -> 5 [] c = "6" -> 6 [] c = "7" -> 7
      [] c = "8" -> 8 [] c = "9" -> 9 [] OTHER -> 0

AllDigits(s) == Len(s) > 0 /\ \A i \in 1..Len(s) : IsDigit(Ch(s, i))

RECURSIVE DigitsToNat(_)
DigitsToNat(s) ==
    IF Len(s) = 0 THEN 0
    ELSE 10 * DigitsToNat(Slice(s, 1, Len(s) - 1)) + DigitVal(Ch(s, Len(s)))

\* int(s) for a string: surrounding blanks, an optional sign, decimal digits
IntOfStr(s) ==
    LET b == Strip(s)
        signed == Len(b) > 0 /\ Ch(b, 1) \in {"+", "-"}
        digits == IF signed THEN Slice(b, 2, Len(b)) ELSE b
    IN  IF AllDigits(digits)
        THEN [ok |-> TRUE,
              n |-> IF signed /\ Ch(b, 1) = "-"
                    THEN 0 - DigitsToNat(digits) ELSE DigitsToNat(digits)]
        ELSE [ok |-> FALSE, n |-> 0]

\* int(x): ok is FALSE where Python raises ValueError or TypeError
PyInt(x) ==
    CASE x.t = "int" -> [ok |-> TRUE, n |-> x.v]
      [] x.t = "bool" -> [ok |-> TRUE, n |-> IF x.v THEN 1 ELSE 0]
      [] x.t = "float" -> [ok |-> TRUE, n |-> IF x.v[1] THEN 0 - x.v[2] ELSE x.v[2]]
      [] x.t = "str" -> IntOfStr(x.v)
      [] OTHER -> [ok |-> FALSE, n |-> 0]

RECURSIVE NatToStr(_)
NatToStr(n) ==
    LET d == <<"0", "1", "2", "3", "4", "5", "6", "7", "8", "9">>[(n % 10) + 1]
    IN  IF n < 10 THEN d ELSE NatToStr(n \div 10) \o d

IntToStr(n) == IF n < 0 THEN "-" \o NatToStr(0 - n) ELSE NatToStr(n)

RECURSIVE PyRepr(_), ReprItems(_, _), ReprMembers(_, _)

\* repr(x); a string is shown in single quotes
PyRepr(x) ==
    CASE x.t = "str" -> "'" \o x.v \o "'"
      [] x.t = "int" -> IntToStr(x.v)
      [] x.t = "bool" -> IF x.v THEN "True" ELSE "False"
      [] x.t = "none" -> "None"
      [] x.t = "float" ->
           (IF x.v[1] THEN "-" ELSE "") \o NatToStr(x.v[2]) \o "." \o x.v[3]
      [] x.t = "list" -> "[" \o ReprItems(x.v, 1) \o "]"
      [] OTHER -> "{" \o ReprMembers(x.v, 1) \o "}"

ReprItems(l, i) ==
    IF i > Len(l) THEN ""
    ELSE (IF i > 1 THEN ", " ELSE "") \o PyRepr(l[i]) \o ReprItems(l, i + 1)

ReprMembers(d, i) ==
    IF i > Len(d) THEN ""
    ELSE (IF i > 1 THEN ", " ELSE "") \o "'" \o d[i].k \o "': "
             \o PyRepr(d[i].v) \o ReprMembers(d, i + 1)

\* str(x): the text itself for a string, repr(x) otherwise
PyStr(x) == IF x.t = "str" THEN x.v ELSE PyRepr(x)

(***************************************************************************)
(* Parameter normalizer: normalize_params of fpl_agent_baseline.py.        *)
(***************************************************************************)
\* the value an operation returns, or the exception it raises
Returned(val) == [exc |-> "", val |-> val]
Raised(exc) == [exc |-> exc, val |-> <<>>]

\* 1. parameter key normalization
mappings ==
    <<Entry("player", "player_name"), Entry("name", "player_name"),
      Entry("home_team", "team"), Entry("away_team", "opponent")>>

\* the loop over params.items(): later entries overwrite earlier ones
RECURSIVE RenameKeys(_, _)
RenameKeys(items, acc) ==
    IF items = <<>> THEN acc
    ELSE LET k == Head(items).k
             new_key == IF DictHas(mappings, k) THEN DictGet(mappings, k) ELSE k
         IN  RenameKeys(Tail(items), DictSet(acc, new_key, Head(items).v))

\* 2. type enforcement of limit: int(), 5 on any exception or when absent
EnforceLimit(c) ==
    IF DictHas(c, "limit")
    THEN LET r == PyInt(DictGet(c, "limit"))
         IN  DictSet(c, "limit", IntV(IF r.ok THEN r.n ELSE 5))
    ELSE DictSet(c, "limit", IntV(5))

\* type enforcement of gw: int(), the raw value stays on any exception
EnforceGw(c) ==
    IF DictHas(c, "gw")
    THEN LET r == PyInt(DictGet(c, "gw"))
         IN  IF r.ok THEN DictSet(c, "gw", IntV(r.n)) ELSE c
    ELSE c

\* 3. position mapping
pos_map ==
    <<Entry("goalkeeper", "GK"), Entry("gk", "GK"),
      Entry("defender", "DEF"), Entry("def", "DEF"), Entry("defence", "DEF"),
      Entry("midfielder", "MID"), Entry("mid", "MID"), Entry("midfield", "MID"),
      Entry("forward", "FWD"), Entry("striker", "FWD"), Entry("fwd", "FWD"),
      Entry("attack", "FWD")>>

\* the lookup without .lower()
MapPositionNoLower(c) ==
    IF DictHas(c, "position")
    THEN LET raw_pos == PyStr(DictGet(c, "position"))
         IN  DictSet(c, "position_mapped",
                     StrV(IF DictHas(pos_map, raw_pos)
                          THEN DictGet(pos_map, raw_pos) ELSE "MID"))
    ELSE DictSet(DictSet(c, "position", StrV("MID")),
                 "position_mapped", StrV("MID"))

MapPosition(c) ==
    IF DictHas(c, "position")
    THEN LET raw_pos == Lower(PyStr(DictGet(c, "position")))
         IN  DictSet(c, "position_mapped",
                     StrV(IF DictHas(pos_map, raw_pos)
                          THEN DictGet(pos_map, raw_pos) ELSE "MID"))
    ELSE DictSet(DictSet(c, "position", StrV("MID")),
                 "position_mapped", StrV("MID"))

\* 4. team name mapping, in declaration order
team_map ==
    <<Entry("manchester city", "Man City"),
      Entry("manchester united", "Man Utd"),
      Entry("man utd", "Man Utd"),
      Entry("nottingham", "Nott'm Forest"),
      Entry("tottenham", "Spurs"),
      Entry("wolves", "Wolves"),
      Entry("sheffield", "Sheffield Utd"),
      Entry("luton", "Luton"),
      Entry("newcastle", "Newcastle")>>

\* the inner loop without its break: the last matching entry wins
FirstTeamMatchNoBreak(val, i, orig) ==
    LET m == {j \in i..Len(team_map) : Contains(team_map[j].k, val)}
    IN  IF m = {} THEN orig
        ELSE team_map[CHOOSE j \in m : \A k \in m : k <= j].v

\* the inner loop over team_map.items() with its break: the short name of
\* the first entry from index i on whose long name occurs in val
RECURSIVE FirstTeamMatch(_, _, _)
FirstTeamMatch(val, i, orig) ==
    IF i > Len(team_map) THEN orig
    ELSE IF Contains(team_map[i].k, val) THEN team_map[i].v
         ELSE FirstTeamMatch(val, i + 1, orig)

\* one round of the loop over ["team", "opponent"]
MapTeamKey(c, key) ==
    IF ~DictHas(c, key) THEN Returned(c)
    ELSE LET x == DictGet(c, key)
         IN  IF x.t # "str" THEN Raised("AttributeError")
             ELSE Returned(DictSet(c, key,
                      StrV(FirstTeamMatch(Lower(x.v), 1, x.v))))

MapTeams(c) ==
    LET r == MapTeamKey(c, "team")
    IN  IF r.exc # "" THEN r ELSE MapTeamKey(r.val, "opponent")

\* 5. season logic
RelativeSeasons == {StrV("current"), StrV("this season"), StrV("last season")}

SeasonLogic(c) ==
    IF ~DictHas(c, "season") \/ DictGet(c, "season") \in RelativeSeasons
    THEN DictSet(c, "season", StrV("2022-23"))
    ELSE c

normalize_params(params) ==
    LET p == IF ~Truthy(params) THEN DictV(<<>>) ELSE params
    IN  IF p.t # "dict" THEN Raised("AttributeError")
        ELSE LET r == MapTeams(MapPosition(EnforceGw(EnforceLimit(
                          RenameKeys(p.v, <<>>)))))
             IN  IF r.exc # "" THEN r ELSE Returned(SeasonLogic(r.val))

(***************************************************************************)
(* Raw parameter mappings handed to the normalizer.                        *)
(***************************************************************************)
TeamValues ==
    {StrV("Manchester City reserves"), StrV("Arsenal"),
     StrV("Newcastle v MAN UTD"), StrV("Man Utd"), NoneV, IntV(7)}

RawValues(k) ==
    CASE k = "player" -> {StrV("Haaland")}
      [] k = "name" -> {StrV("Salah")}
      [] k = "player_name" -> {StrV("Saka")}
      [] k = "player_names" -> {ListV(<<StrV("Salah"), StrV("Saka")>>), ListV(<<>>)}
      [] k \in {"team", "home_team", "opponent", "away_team"} -> TeamValues
      [] k = "position" ->
           {StrV("striker"), StrV("Goalkeeper"), StrV("winger"), NoneV,
            StrV("GK"), StrV("DEF"), StrV("MID"), StrV("FWD")}
      [] k = "season" ->
           {StrV(""), StrV("current"), StrV("Current"), StrV("this season"),
            StrV("last season"), StrV("2023-24"), NoneV}
      [] k = "gw" -> {IntV(3), StrV("10"), StrV("ten"), NoneV}
      [] k = "limit" ->
           {IntV(0), IntV(-2), IntV(3), StrV(" 7"), StrV("abc"), NoneV,
            FloatV(FALSE, 2, "5")}
      [] OTHER -> {StrV("bar")}

RawKeys ==
    {"player", "name", "player_name", "player_names", "team", "home_team",
     "opponent", "away_team", "position", "season", "gw", "limit", "foo"}

RawEntries == UNION {{Entry(k, v) : v \in RawValues(k)} : k \in RawKeys}

RawDicts ==
    UNION {{d \in [1..n -> RawEntries] :
               \A i, j \in 1..n : i # j => d[i].k # d[j].k} : n \in 0..MaxKeys}

\* absent, non-mapping and mapping inputs
RawParams ==
    {NoneV, StrV("Haaland"), IntV(0), ListV(<<StrV("Haaland")>>)}
        \cup {DictV(d) : d \in RawDicts}

NotRun == [exc |-> "not run", val |-> <<>>]

NewStore == [opened |-> 0, closed |-> 0, queries |-> <<>>, yields |-> <<>>]

BaseIdle ==
    /\ bpc = "idle"
    /\ raw_response = ""
    /\ structured_data = NotRun
    /\ answer = NotRun

HybridIdle ==
    /\ pc = "idle"
    /\ args = <<>>
    /\ logs = <<>>
    /\ cypher_results = <<>>
    /\ vector_results = <<>>
    /\ trace = NotRun
    /\ calls = [classifier |-> 0, intent_data |-> NotRun, structured |-> 0,
                index |-> 0, index_failed |-> FALSE,
                generation |-> <<>>]

SearchIdle ==
    /\ spc = "idle"
    /\ user_q = ""
    /\ found = NotRun
    /\ main_docs = NotRun

MergeIdle ==
    /\ mpc = "idle"
    /\ merge_in = <<>>
    /\ context = ""

\* the page as first rendered: both boxes ticked, each selectbox on its
\* first option, no message yet
AppIdle ==
    /\ use_cypher = TRUE
    /\ use_vector = TRUE
    /\ llm_widget = "gemma"
    /\ emb_widget = "minilm"
    /\ messages = <<>>
    /\ requests = <<>>

NormInit ==
    /\ raw \in RawParams
    /\ cleaned = NotRun
    /\ npc = "call"
    /\ store = NewStore
    /\ BaseIdle
    /\ HybridIdle
    /\ SearchIdle
    /\ MergeIdle
    /\ AppIdle

\* one call normalize_params(raw)
Normalize ==
    /\ npc = "call"
    /\ cleaned' = normalize_params(raw)
    /\ npc' = "done"
    /\ UNCHANGED raw
    /\ UNCHANGED <<bvars, store, hvars, svars, mvars, avars>>

\* normalize_params applied to the mapping it returned
Renormalize ==
    /\ npc = "done"
    /\ cleaned.exc = ""
    /\ raw' = DictV(cleaned.val)
    /\ cleaned' = normalize_params(DictV(cleaned.val))
    /\ npc' = "again"
    /\ UNCHANGED <<bvars, store, hvars, svars, mvars, avars>>

NormNext == Normalize \/ Renormalize

SpecNorm == NormInit /\ [][NormNext]_vars

(***************************************************************************)
(* JSON text: json.loads and json.dumps over the values above.             *)
(***************************************************************************)
NoParse(i) == [ok |-> FALSE, val |-> NoneV, pos |-> i]
Parsed(val, i) == [ok |-> TRUE, val |-> val, pos |-> i]

RECURSIVE SkipWs(_, _)
SkipWs(s, i) == IF IsSpace(Ch(s, i)) THEN SkipWs(s, i + 1) ELSE i

\* the characters of a string literal from i on, up to the closing quote
\* it runs to the next quote, escape or control character
RECURSIVE ScanString(_, _, _)
ScanString(s, i, acc) ==
    LET stops == {k \in i..Len(s) : Ch(s, k) \in {"\"", "\\", "\n", "\t", "\r"}}
        k == Least(stops)
        sofar == acc \o Slice(s, i, k - 1)
        e == Ch(s, k + 1)
    IN  IF stops = {} THEN NoParse(i)
        ELSE CASE Ch(s, k) = "\"" -> Parsed(StrV(sofar), k + 1)
               [] Ch(s, k) = "\\" /\ e \in {"\"", "\\", "/"} ->
                    ScanString(s, k + 2, sofar \o e)
               [] Ch(s, k) = "\\" /\ e = "n" -> ScanString(s, k + 2, sofar \o "\n")
               [] Ch(s, k) = "\\" /\ e = "t" -> ScanString(s, k + 2, sofar \o "\t")
               [] OTHER -> NoParse(k)

\* end of the run of digits starting at i
RECURSIVE DigitsEnd(_, _)
DigitsEnd(s, i) == IF IsDigit(Ch(s, i)) THEN DigitsEnd(s, i + 1) ELSE i

\* a number: -? (0 | [1-9][0-9]*) (. [0-9]+)?
ScanNumber(s, i) ==
    LET neg == Ch(s, i) = "-"
        b == IF neg THEN i + 1 ELSE i
        e == IF Ch(s, b) = "0" THEN b + 1 ELSE DigitsEnd(s, b)
        f == IF Ch(s, e) = "." THEN DigitsEnd(s, e + 1) ELSE e
        n == DigitsToNat(Slice(s, b, e - 1))
    IN  IF e = b THEN NoParse(i)
        ELSE IF f > e + 1 THEN Parsed(FloatV(neg, n, Slice(s, e + 1, f - 1)), f)
        ELSE Parsed(IntV(IF neg THEN 0 - n ELSE n), e)

RECURSIVE ScanValue(_, _), ScanElements(_, _, _), ScanMembers(_, _, _)

ScanValue(s, i) ==
    LET c == Ch(s, i)
    IN  CASE c = "\"" -> ScanString(s, i + 1, "")
          [] c = "{" ->
               LET j == SkipWs(s, i + 1)
               IN  IF Ch(s, j) = "}" THEN Parsed(DictV(<<>>), j + 1)
                   ELSE ScanMembers(s, j, <<>>)
          [] c = "[" ->
               LET j == SkipWs(s, i + 1)
               IN  IF Ch(s, j) = "]" THEN Parsed(ListV(<<>>), j + 1)
                   ELSE ScanElements(s, j, <<>>)
          [] c = "-" \/ IsDigit(c) -> ScanNumber(s, i)
          [] Slice(s, i, i + 3) = "true" -> Parsed(BoolV(TRUE), i + 4)
          [] Slice(s, i, i + 4) = "false" -> Parsed(BoolV(FALSE), i + 5)
          [] Slice(s, i, i + 3) = "null" -> Parsed(NoneV, i + 4)
          [] OTHER -> NoParse(i)

\* value (, value)* ] with the elements read so far
ScanElements(s, i, acc) ==
    LET r == ScanValue(s, i)
        j == SkipWs(s, r.pos)
    IN  IF ~r.ok THEN r
        ELSE IF Ch(s, j) = "]" THEN Parsed(ListV(Append(acc, r.val)), j + 1)
        ELSE IF Ch(s, j) = "," THEN ScanElements(s, SkipWs(s, j + 1), Append(acc, r.val))
        ELSE NoParse(j)

\* "key" : value (, "key" : value)* } with the members read so far
ScanMembers(s, i, acc) ==
    IF Ch(s, i) # "\"" THEN NoParse(i)
    ELSE LET k == ScanString(s, i + 1, "")
             c == SkipWs(s, k.pos)
             r == ScanValue(s, SkipWs(s, c + 1))
             j == SkipWs(s, r.pos)
         IN  IF ~k.ok \/ Ch(s, c) # ":" THEN NoParse(c)
             ELSE IF ~r.ok THEN r
             ELSE IF Ch(s, j) = "}"
                  THEN Parsed(DictV(DictSet(acc, k.val.v, r.val)), j + 1)
             ELSE IF Ch(s, j) = ","
                  THEN ScanMembers(s, SkipWs(s, j + 1), DictSet(acc, k.val.v, r.val))
             ELSE NoParse(j)

\* json.loads(s): one value with nothing but blanks around it
json_loads(s) ==
    LET r == ScanValue(s, SkipWs(s, 1))
    IN  IF r.ok /\ SkipWs(s, r.pos) = Len(s) + 1
        THEN Returned(r.val) ELSE Raised("JSONDecodeError")

\* the characters from i on with quote and backslash escaped
RECURSIVE EscapeFrom(_, _)
EscapeFrom(s, i) ==
    LET stops == {k \in i..Len(s) : Ch(s, k) \in {"\"", "\\"}}
        k == Least(stops)
    IN  IF stops = {} THEN Slice(s, i, Len(s))
        ELSE Slice(s, i, k - 1) \o "\\" \o Ch(s, k) \o EscapeFrom(s, k + 1)

RECURSIVE json_dumps(_), DumpItems(_, _), DumpMembers(_, _)

\* json.dumps(x) with the default separators
json_dumps(x) ==
    CASE x.t = "str" -> "\"" \o EscapeFrom(x.v, 1) \o "\""
      [] x.t = "none" -> "null"
      [] x.t = "bool" -> IF x.v THEN "true" ELSE "false"
      [] x.t = "list" -> "[" \o DumpItems(x.v, 1) \o "]"
      [] x.t = "dict" -> "{" \o DumpMembers(x.v, 1) \o "}"
      [] OTHER -> PyRepr(x)

DumpItems(l, i) ==
    IF i > Len(l) THEN ""
    ELSE (IF i > 1 THEN ", " ELSE "") \o json_dumps(l[i]) \o DumpItems(l, i + 1)

DumpMembers(d, i) ==
    IF i > Len(d) THEN ""
    ELSE (IF i > 1 THEN ", " ELSE "") \o "\"" \o EscapeFrom(d[i].k, 1) \o "\": "
             \o json_dumps(d[i].v) \o DumpMembers(d, i + 1)

(***************************************************************************)
(* Intent classifier: clean_json_string and parse_user_intent.             *)
(***************************************************************************)
\* str.replace(pat, ""): every occurrence, left to right
RECURSIVE RemoveAll(_, _)
RemoveAll(s, pat) ==
    LET at == {i \in 1..(Len(s) - Len(pat) + 1) : Slice(s, i, i + Len(pat) - 1) = pat}
        i == Least(at)
    IN  IF at = {} THEN s
        ELSE Slice(s, 1, i - 1) \o RemoveAll(Slice(s, i + Len(pat), Len(s)), pat)

\* re.sub(r',\s*([\]}])', r'\1', s), scanning from i
\* each match is a comma, any blanks and a closing bracket; the bracket
\* alone replaces it and the scan goes on behind it
RECURSIVE DropTrailingCommas(_, _)
DropTrailingCommas(s, i) ==
    LET at == {k \in i..Len(s) :
                  Ch(s, k) = "," /\ Ch(s, SkipWs(s, k + 1)) \in {"]", "}"}}
        k == Least(at)
        j == SkipWs(s, k + 1)
    IN  IF at = {} THEN Slice(s, i, Len(s))
        ELSE Slice(s, i, k - 1) \o Ch(s, j) \o DropTrailingCommas(s, j + 1)

\* the three-backquote code fence marker; a backquote cannot be written in a
\* string here, so the tilde, which no response uses otherwise, stands for it
FENCE == "~~~"

clean_json_string(json_str) ==
    DropTrailingCommas(
        Strip(RemoveAll(RemoveAll(json_str, FENCE \o "json"), FENCE)), 1)

\* what a model call produced: the text of the model, or an exception
Responded(text) == [raised |-> FALSE, text |-> text]
InvokeRaised == [raised |-> TRUE, text |-> ""]

\* FreeHFChatLLM._call: an exception of the inference client comes back as
\* an error text
FreeHFChatLLM_call(o) ==
    IF o.raised THEN Responded("API_ERROR: timeout") ELSE Responded(o.text)

ErrorIntent ==
    DictV(<<Entry("intent", StrV("error")), Entry("parameters", DictV(<<>>))>>)

\* the try block around the single model call; its handler prints
\* raw_response, which is unbound when the call itself raised
parse_user_intent(outcome) ==
    IF outcome.raised THEN Raised("UnboundLocalError")
    ELSE LET r == json_loads(clean_json_string(outcome.text))
         IN  IF r.exc # "" THEN Returned(ErrorIntent) ELSE Returned(r.val)

(***************************************************************************)
(* Template registry and graph store.                                      *)
(***************************************************************************)
NoCap == [kind |-> "none", n |-> 0]
ParamCap == [kind |-> "param", n |-> 0]
FixedCap(n) == [kind |-> "fixed", n |-> n]

Template(uses, cap) == [uses |-> uses, cap |-> cap]

\* per intent: the $parameters its query binds and its LIMIT clause
CYPHER_TEMPLATES ==
    <<Entry("player_summary", Template({"season", "player_name"}, NoCap)),
      Entry("top_players_by_position",
            Template({"position", "position_mapped", "season", "limit"}, ParamCap)),
      Entry("player_vs_team",
            Template({"season", "player_name", "opponent"}, NoCap)),
      Entry("team_squad_by_position",
            Template({"team", "position", "position_mapped", "season", "limit"},
                     ParamCap)),
      Entry("compare_players", Template({"season", "player_names"}, NoCap)),
      Entry("team_performance_in_gw", Template({"season", "gw", "team"}, NoCap)),
      Entry("recommend_differentials",
            Template({"position", "position_mapped", "season", "limit"}, ParamCap)),
      Entry("best_captain_options", Template({"season"}, FixedCap(5))),
      Entry("player_availability_check",
            Template({"season", "player_name"}, FixedCap(3))),
      Entry("highest_scoring_gw", Template({"season", "player_name"}, FixedCap(1)))>>

\* `intent in CYPHER_TEMPLATES`
IsTemplate(intent) == intent.t = "str" /\ DictHas(CYPHER_TEMPLATES, intent.v)

PlayerNames == <<"Erling Haaland", "Bukayo Saka", "Mohamed Salah">>

\* the i-th row the store matches, in the order of the query
StoreRow(i) ==
    DictV(<<Entry("Player", StrV(PlayerNames[((i - 1) % Len(PlayerNames)) + 1])),
            Entry("GW", IntV(i)),
            Entry("Points", IntV(20 - i))>>)

\* what the store does with a query: it is unavailable, or it matches rows
StoreFails == [fail |-> TRUE, n |-> 0]
StoreMatches(n) == [fail |-> FALSE, n |-> n]
StoreOutcomes == {StoreFails} \cup {StoreMatches(n) : n \in 0..MaxRows}

\* driver.execute_query(template, params): a missing binding or a negative
\* LIMIT is an error of the store, the LIMIT clause cuts the matched rows
neo4j_execute(tpl, params, out) ==
    LET lim == IF DictHas(params, "limit") THEN DictGet(params, "limit") ELSE NoneV
        n == CASE tpl.cap.kind = "fixed" /\ tpl.cap.n < out.n -> tpl.cap.n
               [] tpl.cap.kind = "param" /\ lim.t = "int" /\ lim.v < out.n -> lim.v
               [] OTHER -> out.n
    IN  IF \/ out.fail
           \/ ~(tpl.uses \subseteq DictKeys(params))
           \/ (tpl.cap.kind = "param" /\ (lim.t # "int" \/ lim.v < 0))
        THEN Raised("Neo4jError")
        ELSE Returned([i \in 1..n |-> StoreRow(i)])

\* "\n".join(lines)
RECURSIVE JoinLines(_, _)
JoinLines(lines, i) ==
    IF i > Len(lines) THEN ""
    ELSE (IF i > 1 THEN "\n" ELSE "") \o lines[i] \o JoinLines(lines, i + 1)

(***************************************************************************)
(* Execution engine of the baseline assistant: execute_query.              *)
(***************************************************************************)
Outcome(ret, st) == [ret |-> ret, store |-> st]

\* intent_data.get(key)
GetOrNone(d, key) == IF DictHas(d, key) THEN DictGet(d, key) ELSE NoneV

NoDataText ==
    "No data found. (Check if Season/Names are correct or if data exists for this year)"

\* the try block: the driver is opened, the query runs, the with statement
\* closes the driver on every way out
\* the try block without the with statement: the driver stays open when
\* the query raises
RunTemplateNoWith(intent, params, out, st) ==
    LET result == neo4j_execute(DictGet(CYPHER_TEMPLATES, intent), params, out)
        used == [opened |-> st.opened + 1,
                 closed |-> IF result.exc # "" THEN st.closed ELSE st.closed + 1,
                 queries |-> Append(st.queries,
                                [intent |-> intent, params |-> params]),
                 yields |-> Append(st.yields, result)]
        records == result.val
    IN  IF result.exc # ""
        THEN Outcome(Returned(StrV("Query Execution Error: " \o result.exc)), used)
        ELSE IF Len(records) = 0 THEN Outcome(Returned(StrV(NoDataText)), used)
        ELSE Outcome(Returned(StrV(JoinLines(
                 [i \in 1..Len(records) |-> json_dumps(records[i])], 1))), used)

RunTemplate(intent, params, out, st) ==
    LET result == neo4j_execute(DictGet(CYPHER_TEMPLATES, intent), params, out)
        used == [opened |-> st.opened + 1,
                 closed |-> st.closed + 1,
                 queries |-> Append(st.queries,
                                [intent |-> intent, params |-> params]),
                 yields |-> Append(st.yields, result)]
        records == result.val
    IN  IF result.exc # ""
        THEN Outcome(Returned(StrV("Query Execution Error: " \o result.exc)), used)
        ELSE IF Len(records) = 0 THEN Outcome(Returned(StrV(NoDataText)), used)
        ELSE Outcome(Returned(StrV(JoinLines(
                 [i \in 1..Len(records) |-> json_dumps(records[i])], 1))), used)

execute_query(intent_data, out, st) ==
    IF intent_data.t # "dict" THEN Outcome(Raised("AttributeError"), st)
    ELSE LET got == GetOrNone(intent_data.v, "intent")
             intent == IF Truthy(got) /\ got.t = "str"
                       THEN StrV(Lower(Strip(got.v))) ELSE got
             params == normalize_params(GetOrNone(intent_data.v, "parameters"))
         IN  IF Truthy(got) /\ got.t # "str" THEN Outcome(Raised("AttributeError"), st)
             ELSE IF params.exc # "" THEN Outcome(Raised(params.exc), st)
             ELSE IF intent.t \in {"list", "dict"} THEN Outcome(Raised("TypeError"), st)
             ELSE IF ~IsTemplate(intent)
                  THEN Outcome(Returned(StrV("Error: Intent '" \o PyStr(intent)
                           \o "' is not in the template library.")), st)
             ELSE RunTemplate(intent.v, params.val, out, st)

(***************************************************************************)
(* What the classifier model answers.                                      *)
(***************************************************************************)
IntentData(intent, parameters) ==
    DictV(<<Entry("intent", intent), Entry("parameters", parameters)>>)

ClassifiedIntents ==
    {StrV("player_vs_team"), StrV("top_players_by_position"),
     StrV(" Compare_Players "), StrV("best_captain_options"),
     StrV("transfer_advice"), StrV("error"), StrV(""), NoneV, IntV(5)}

ClassifiedParameters ==
    {NoneV, DictV(<<>>),
     DictV(<<Entry("player", StrV("Haaland")), Entry("opponent", StrV("Arsenal")),
             Entry("limit", IntV(1))>>),
     DictV(<<Entry("player_names", ListV(<<StrV("Salah"), StrV("Saka")>>))>>),
     DictV(<<Entry("position", StrV("striker")), Entry("limit", IntV(2))>>),
     DictV(<<Entry("position", StrV("defender")), Entry("limit", IntV(-2))>>),
     DictV(<<Entry("player_name", StrV("Saka")), Entry("team", NoneV)>>)}

\* well-formed objects, and responses that are not the object asked for
ClassifierTexts ==
    {json_dumps(IntentData(i, q)) : i \in ClassifiedIntents, q \in ClassifiedParameters}
        \cup {"The intent is player_summary.",
              "[\"player_summary\"]",
              "\"player_summary\"",
              "5",
              "{\"intent\": \"player_summary\", \"parameters\": {\"player_name\": \"Haaland\"}",
              "{\"intent\": \"highest_scoring_gw\"}",
              FENCE \o "json\n{\"intent\": \"player_summary\", \"parameters\": {\"name\": \"Haaland\",}}\n" \o FENCE,
              "{\"intent\": \"compare_players\", \"parameters\": {\"player_names\": [\"Salah\", \"Saka\",]}}",
              "{\"intent\": \"player_summary\", \"parameters\": {\"player_name\": \"Saka, }\"}}"}

\* what the inference client does for the classifier prompt
ClassifierOutcomes == {InvokeRaised} \cup {Responded(t) : t \in ClassifierTexts}

(***************************************************************************)
(* One turn of the baseline assistant's loop: classify, then execute.      *)
(***************************************************************************)
NormIdle == raw = NoneV /\ cleaned = NotRun /\ npc = "idle"

BaseInit ==
    /\ bpc = "ask"
    /\ raw_response = ""
    /\ structured_data = NotRun
    /\ answer = NotRun
    /\ store = NewStore
    /\ NormIdle
    /\ HybridIdle
    /\ SearchIdle
    /\ MergeIdle
    /\ AppIdle

\* structured_data = parse_user_intent(q); an exception ends the turn in
\* the loop's handler
Classify ==
    /\ bpc = "ask"
    /\ \E r \in {FreeHFChatLLM_call(o) : o \in ClassifierOutcomes} :
          /\ raw_response' = r.text
          /\ structured_data' = parse_user_intent(r)
    /\ bpc' = IF structured_data'.exc # "" THEN "system_error" ELSE "classified"
    /\ UNCHANGED <<answer, store>>
    /\ UNCHANGED <<nvars, hvars, svars, mvars, avars>>

\* answer = execute_query(structured_data)
Execute ==
    /\ bpc = "classified"
    /\ \E out \in StoreOutcomes :
          LET r == execute_query(structured_data.val, out, store)
          IN  /\ answer' = r.ret
              /\ store' = r.store
    /\ bpc' = IF answer'.exc # "" THEN "system_error" ELSE "answered"
    /\ UNCHANGED <<raw_response, structured_data>>
    /\ UNCHANGED <<nvars, hvars, svars, mvars, avars>>

BaseNext == Classify \/ Execute

SpecBaseline == BaseInit /\ [][BaseNext]_vars

(***************************************************************************)
(* Retrieval channels of the orchestrator.  run_cypher and                 *)
(* perform_semantic_search are imported by fpl_agent_hybrid.py; they       *)
(* follow the structured and the semantic retriever of the design.         *)
(***************************************************************************)
\* the first n elements of a sequence, all of it when it is shorter
Take(rows, n) ==
    [i \in 1..(IF n < 0 THEN 0 ELSE IF n < Len(rows) THEN n ELSE Len(rows))
        |-> rows[i]]

\* structured retriever: an intent outside the registry gives no rows and
\* no query; a store failure gives no rows; the rows are cut to limit
Retrieve(intent, np, out, st) ==
    IF np.exc # "" THEN Outcome(Raised(np.exc), st)
    ELSE CHOOSE r \in
           {LET used == [opened |-> st.opened + 1,
                         closed |-> st.closed + 1,
                         queries |-> Append(st.queries,
                                        [intent |-> intent, params |-> np.val]),
                         yields |-> Append(st.yields, result)]
            IN  IF result.exc # "" THEN Outcome(Returned(ListV(<<>>)), used)
                ELSE Outcome(Returned(ListV(
                         Take(result.val, DictGet(np.val, "limit").v))), used)
              : result \in {neo4j_execute(DictGet(CYPHER_TEMPLATES, intent),
                                          np.val, out)}} : TRUE

run_cypher(intent, params, out, st) ==
    IF ~IsTemplate(intent) THEN Outcome(Returned(ListV(<<>>)), st)
    ELSE CHOOSE r \in {Retrieve(intent.v, np, out, st)
                          : np \in {normalize_params(params)}} : TRUE

\* the profile chunks of the index; the last one names no player
Chunk(text, metadata) ==
    DictV(<<Entry("text", StrV(text)), Entry("metadata", DictV(metadata))>>)

IndexChunks ==
    {Chunk("Bukayo Saka is a midfielder.", <<Entry("player_name", StrV("Bukayo Saka"))>>),
     Chunk("Erling Haaland is a forward.", <<Entry("player_name", StrV("Erling Haaland"))>>),
     Chunk("Unnamed profile.", <<>>)}

\* what the index does with a search: it fails, or it returns up to k
\* different chunks in similarity order
IndexFails == [fail |-> TRUE, docs |-> <<>>]
IndexReturns(docs) == [fail |-> FALSE, docs |-> docs]

IndexOutcomes(k) ==
    {IndexFails} \cup
    UNION {{IndexReturns(d) : d \in {f \in [1..n -> IndexChunks] :
                                        \A i, j \in 1..n : i # j => f[i] # f[j]}}
           : n \in 0..k}

\* the last blank-separated token of a name
LastToken(name) ==
    LET blanks == {i \in 1..Len(name) : Ch(name, i) = " "}
    IN  IF blanks = {} THEN name
        ELSE Slice(name, (CHOOSE i \in blanks : \A j \in blanks : j <= i) + 1, Len(name))

\* a chunk matches when its player name, or the last token of it, occurs
\* in the lower-cased question
NameMatches(question, doc) ==
    LET md == DictGet(doc.v, "metadata").v
        name == IF DictHas(md, "player_name")
                THEN Lower(PyStr(DictGet(md, "player_name"))) ELSE ""
    IN  /\ name # ""
        /\ \/ Contains(name, Lower(question))
           \/ Contains(LastToken(name), Lower(question))

\* the chunks from i on whose match with the question is `hit`, in order
RECURSIVE Matching(_, _, _, _)
Matching(question, docs, i, hit) ==
    IF i > Len(docs) THEN <<>>
    ELSE (IF NameMatches(question, docs[i]) = hit THEN <<docs[i]>> ELSE <<>>)
             \o Matching(question, docs, i + 1, hit)

\* semantic retriever: matching chunks first, index order inside each
\* part; a failure gives no chunks
perform_semantic_search(question, model_key, k, out) ==
    IF out.fail THEN Returned(ListV(<<>>))
    ELSE Returned(ListV(Matching(question, out.docs, 1, TRUE)
                            \o Matching(question, out.docs, 1, FALSE)))

(***************************************************************************)
(* Embedding search: rerank_by_player_name and semantic_search of          *)
(* fpl_agent_embeddings.py.                                                 *)
(***************************************************************************)
\* largest k of a similarity search of the embedding assistant
SearchK == 3

\* SequenceMatcher.find_longest_match without junk: the length of the
\* longest block common to a and b
LongestLen(a, b) ==
    LET m == IF Len(a) < Len(b) THEN Len(a) ELSE Len(b)
        ks == {k \in 1..m :
                 \E i \in 1..(Len(a) - k + 1), j \in 1..(Len(b) - k + 1) :
                     Slice(a, i, i + k - 1) = Slice(b, j, j + k - 1)}
    IN  IF ks = {} THEN 0 ELSE CHOOSE k \in ks : \A l \in ks : l <= k

\* where the longest block starts: earliest in a, then earliest in b
LongestInA(a, b, k) ==
    Least({i \in 1..(Len(a) - k + 1) :
             \E j \in 1..(Len(b) - k + 1) :
                 Slice(a, i, i + k - 1) = Slice(b, j, j + k - 1)})

LongestInB(a, b, k, i) ==
    Least({j \in 1..(Len(b) - k + 1) :
             Slice(a, i, i + k - 1) = Slice(b, j, j + k - 1)})

\* SequenceMatcher.get_matching_blocks: the summed size of the blocks,
\* the longest one first and then the pieces left and right of it
RECURSIVE MatchedChars(_, _)
MatchedChars(a, b) ==
    IF a = "" \/ b = "" THEN 0
    ELSE CHOOSE n \in
           {IF k = 0 THEN 0
            ELSE CHOOSE t \in
                   {k + MatchedChars(Slice(a, 1, i - 1),
                                     Slice(b, 1, LongestInB(a, b, k, i) - 1))
                      + MatchedChars(Slice(a, i + k, Len(a)),
                                     Slice(b, LongestInB(a, b, k, i) + k, Len(b)))
                      : i \in {LongestInA(a, b, k)}} : TRUE
              : k \in {LongestLen(a, b)}} : TRUE

\* a score as the fraction num / den
Fraction(num, den) == [num |-> num, den |-> den]
Above(x, y) == x.num * y.den > y.num * x.den

\* SequenceMatcher(a=..., b=...).ratio()
ratio(a, b) ==
    IF Len(a) + Len(b) = 0 THEN Fraction(1, 1)
    ELSE Fraction(2 * MatchedChars(a, b), Len(a) + Len(b))

\* doc.metadata.get("player_name", "").lower()
DocName(doc) ==
    LET md == DictGet(doc.v, "metadata").v
    IN  IF DictHas(md, "player_name")
        THEN Lower(DictGet(md, "player_name").v) ELSE ""

\* the key function of the sort
score(q, doc) ==
    CHOOSE x \in {IF name = "" THEN Fraction(0, 1) ELSE ratio(Lower(q), name)
                    : name \in {DocName(doc)}} : TRUE

\* sorted(ds, reverse=True) by the given keys: higher keys first, equal
\* keys in their original order
SortedReverse(ds, keys) ==
    LET before(i) == {j \in 1..Len(ds) :
                         \/ Above(keys[j], keys[i])
                         \/ (~Above(keys[i], keys[j]) /\ j < i)}
    IN  [p \in 1..Len(ds) |->
            ds[CHOOSE i \in 1..Len(ds) : Cardinality(before(i)) = p - 1]]

rerank_by_player_name(q, ds) ==
    SortedReverse(ds, [i \in 1..Len(ds) |-> score(q, ds[i])])

\* the profile chunks the embedding assistant searches
ProfileChunks ==
    IndexChunks \cup
    {Chunk("Mohamed Salah is a midfielder.",
           <<Entry("player_name", StrV("Mohamed Salah"))>>)}

SearchOutcomes(k) ==
    {IndexFails} \cup
    UNION {{IndexReturns(d) : d \in {f \in [1..n -> ProfileChunks] :
                                        \A i, j \in 1..n : i # j => f[i] # f[j]}}
           : n \in 0..k}

\* load_vector_store and similarity_search raise when the index is
\* unavailable; nothing in semantic_search catches it
semantic_search(q, k, out) ==
    IF out.fail THEN Raised("ServiceUnavailable")
    ELSE Returned(ListV(rerank_by_player_name(q, out.docs)))

SearchQuestions ==
    {"how did haaland do", "Compare Salah and Saka", "Is Saka fit", "Who is best"}

SearchInit ==
    /\ spc = "call"
    /\ user_q \in SearchQuestions
    /\ found \in SearchOutcomes(SearchK)
    /\ main_docs = NotRun
    /\ store = NewStore
    /\ NormIdle
    /\ BaseIdle
    /\ HybridIdle
    /\ MergeIdle
    /\ AppIdle

\* docs = semantic_search(user_q, k)
Search ==
    /\ spc = "call"
    /\ main_docs' = semantic_search(user_q, SearchK, found)
    /\ spc' = "done"
    /\ UNCHANGED <<user_q, found>>
    /\ UNCHANGED <<nvars, bvars, store, hvars, mvars, avars>>

SearchNext == Search

SpecSearch == SearchInit /\ [][SearchNext]_vars

(***************************************************************************)
(* Context merging and generation: format_context, get_llm_instance and    *)
(* process_query of fpl_agent_hybrid.py.                                   *)
(***************************************************************************)
NoRecordsMarker == "### Database Records: No direct match found."
NoProfilesMarker == "### Semantic Search: No relevant profiles found."

\* ", ".join(f"{k}: {v}" for k, v in record.items())
RECURSIVE RecordStr(_, _)
RecordStr(d, i) ==
    IF i > Len(d) THEN ""
    ELSE (IF i > 1 THEN ", " ELSE "") \o d[i].k \o ": " \o PyStr(d[i].v)
             \o RecordStr(d, i + 1)

\* the merger that leaves an empty section out
format_context_no_marker(cypher, vector) ==
    LET records ==
            IF Len(cypher) > 0
            THEN <<"### Database Records (High Confidence):">>
                     \o [i \in 1..Len(cypher) |-> "- " \o RecordStr(cypher[i].v, 1)]
            ELSE <<>>
        chunks ==
            IF Len(vector) > 0
            THEN <<"### Semantic Search (Contextual):">>
                     \o [i \in 1..Len(vector) |->
                            "- " \o (IF DictHas(vector[i].v, "text")
                                     THEN PyStr(DictGet(vector[i].v, "text")) ELSE "")]
            ELSE <<>>
    IN  JoinLines(records \o <<"\n">> \o chunks, 1)

format_context(cypher, vector) ==
    LET records ==
            IF Len(cypher) > 0
            THEN <<"### Database Records (High Confidence):">>
                     \o [i \in 1..Len(cypher) |-> "- " \o RecordStr(cypher[i].v, 1)]
            ELSE <<NoRecordsMarker>>
        chunks ==
            IF Len(vector) > 0
            THEN <<"### Semantic Search (Contextual):">>
                     \o [i \in 1..Len(vector) |->
                            "- " \o (IF DictHas(vector[i].v, "text")
                                     THEN PyStr(DictGet(vector[i].v, "text")) ELSE "")]
            ELSE <<NoProfilesMarker>>
    IN  JoinLines(records \o <<"\n">> \o chunks, 1)

\* longest list of rows, and of chunks, handed to format_context
MaxMerge == 2

\* rows of the store, two of them of the same player
MergeRecords == {StoreRow(1), StoreRow(2), StoreRow(4)}

\* the lists of at most n different members of a set
ListsOf(S, n) ==
    UNION {{f \in [1..m -> S] : \A i, j \in 1..m : i # j => f[i] # f[j]}
           : m \in 0..n}

MergeInit ==
    /\ mpc = "call"
    /\ merge_in \in [cypher : ListsOf(MergeRecords, MaxMerge),
                     vector : ListsOf(IndexChunks, MaxMerge)]
    /\ context = ""
    /\ store = NewStore
    /\ NormIdle
    /\ BaseIdle
    /\ HybridIdle
    /\ SearchIdle
    /\ AppIdle

\* context_str = format_context(cypher_results, vector_results)
Merge ==
    /\ mpc = "call"
    /\ context' = format_context(merge_in.cypher, merge_in.vector)
    /\ mpc' = "done"
    /\ UNCHANGED merge_in
    /\ UNCHANGED <<nvars, bvars, store, hvars, svars, avars>>

MergeNext == Merge

SpecMerge == MergeInit /\ [][MergeNext]_vars

\* FreeHFChatLLM._call of the model factory: an exception of the inference
\* client comes back as an error text
HubChatLLM_call(o) ==
    IF o.raised THEN Responded("Error from Hugging Face API: timeout")
    ELSE Responded(o.text)

\* the provider of each model key
LLM_CONFIGS ==
    <<Entry("gemma", "hf"), Entry("llama", "hf"),
      Entry("gemini", "google"), Entry("gemini_flash", "google")>>

\* the model object, None without the Google library, ValueError for a
\* key outside the table
get_llm_instance(llm_key, google_lib) ==
    IF ~DictHas(LLM_CONFIGS, llm_key) THEN Raised("ValueError")
    ELSE IF DictGet(LLM_CONFIGS, llm_key) = "google"
         THEN IF ~google_lib THEN Returned(NoneV)
              ELSE Returned([t |-> "llm", v |-> "google"])
         ELSE Returned([t |-> "llm", v |-> "hf"])

\* HYBRID_PROMPT_TEMPLATE.format(...), the fixed wording shortened to its
\* section headers
final_prompt(context_str, user_query) ==
    "--- PERSONA ---\n--- CONTEXT ---\n" \o context_str
        \o "\n--- TASK ---\nAnswer the user's question: \"" \o user_query
        \o "\"\nAnswer:\n"

\* round(time.time() - start_time, 2)
Duration == FloatV(FALSE, 1, "25")

NewLogs ==
    <<Entry("intent", NoneV), Entry("cypher_params", NoneV),
      Entry("retrieved_cypher", ListV(<<>>)), Entry("retrieved_vector", ListV(<<>>))>>

\* the calls made so far: classifier calls and what the last one gave,
\* calls of the two retrievers, and the prompts given to the generation
\* model with what it did
NoCalls ==
    [classifier |-> 0, intent_data |-> NotRun, structured |-> 0,
     index |-> 0, index_failed |-> FALSE,
                generation |-> <<>>]

Questions == {"how did haaland do", "Compare Salah and Saka"}

\* the keys: one of each provider in the table, and one outside it
LlmKeys == {"gemma", "gemini", "gpt4"}

Init ==
    /\ pc = "start"
    /\ args \in [user_query : Questions, llm_key : LlmKeys, emb_key : {"minilm"},
                 use_cypher : BOOLEAN, use_vector : BOOLEAN, google_lib : BOOLEAN]
    /\ logs = NewLogs
    /\ cypher_results = <<>>
    /\ vector_results = <<>>
    /\ trace = NotRun
    /\ calls = NoCalls
    /\ store = NewStore
    /\ NormIdle
    /\ BaseIdle
    /\ SearchIdle
    /\ MergeIdle
    /\ AppIdle

\* step 1: intent_data = parse_user_intent(user_query) and the two .get
\* calls on it; an exception of either leaves process_query
ClassifierResults ==
    {parse_user_intent(FreeHFChatLLM_call(o)) : o \in ClassifierOutcomes}

\* the step when the .get results are not written to the logs
RecordIntentNoLog(r) ==
    IF r.exc # ""
    THEN /\ trace' = Raised(r.exc)
         /\ pc' = "raised"
         /\ UNCHANGED logs
    ELSE IF r.val.t # "dict"
    THEN /\ trace' = Raised("AttributeError")
         /\ pc' = "raised"
         /\ UNCHANGED logs
    ELSE /\ pc' = "classified"
         /\ UNCHANGED <<trace, logs>>

RecordIntent(r) ==
    IF r.exc # ""
    THEN /\ trace' = Raised(r.exc)
         /\ pc' = "raised"
         /\ UNCHANGED logs
    ELSE IF r.val.t # "dict"
    THEN /\ trace' = Raised("AttributeError")
         /\ pc' = "raised"
         /\ UNCHANGED logs
    ELSE /\ logs' = DictSet(DictSet(logs, "intent",
                                GetOrNone(r.val.v, "intent")),
                            "cypher_params",
                            GetOrNone(r.val.v, "parameters"))
         /\ pc' = "classified"
         /\ UNCHANGED trace

\* the step with a second classifier call
StepClassifyRetry ==
    /\ pc = "start"
    /\ \E r \in ClassifierResults :
          /\ RecordIntent(r)
          /\ calls' = [calls EXCEPT !.classifier = @ + 2, !.intent_data = r]
    /\ UNCHANGED <<args, cypher_results, vector_results, store>>
    /\ UNCHANGED <<nvars, bvars, svars, mvars, avars>>

StepClassify ==
    /\ pc = "start"
    /\ \E r \in ClassifierResults :
          /\ RecordIntent(r)
          /\ calls' = [calls EXCEPT !.classifier = @ + 1, !.intent_data = r]
    /\ UNCHANGED <<args, cypher_results, vector_results, store>>
    /\ UNCHANGED <<nvars, bvars, svars, mvars, avars>>

\* step 2 A: run_cypher when enabled and an intent other than "error" was
\* found; its exceptions are swallowed
StepCypher ==
    /\ pc = "classified"
    /\ LET intent == DictGet(logs, "intent")
           params == DictGet(logs, "cypher_params")
       IN  IF args.use_cypher /\ Truthy(intent) /\ intent # StrV("error")
           THEN \E out \in StoreOutcomes :
                   LET r == run_cypher(intent, params, out, store)
                   IN  /\ store' = r.store
                       /\ calls' = [calls EXCEPT !.structured = @ + 1]
                       /\ IF r.ret.exc # ""
                          THEN UNCHANGED <<cypher_results, logs>>
                          ELSE /\ cypher_results' = r.ret.val.v
                               /\ logs' = DictSet(logs, "retrieved_cypher", r.ret.val)
           ELSE UNCHANGED <<cypher_results, logs, store, calls>>
    /\ pc' = "structured"
    /\ UNCHANGED <<args, vector_results, trace>>
    /\ UNCHANGED <<nvars, bvars, svars, mvars, avars>>

\* step 2 B without the assignment to logs
StepVectorNoLog ==
    /\ pc = "structured"
    /\ IF args.use_vector
       THEN \E out \in IndexOutcomes(TopK) :
               LET r == perform_semantic_search(args.user_query, args.emb_key,
                                                TopK, out)
               IN  /\ calls' = [calls EXCEPT !.index = @ + 1,
                                            !.index_failed = out.fail]
                   /\ IF r.exc # ""
                      THEN UNCHANGED <<vector_results, logs>>
                      ELSE /\ vector_results' = r.val.v
                           /\ UNCHANGED logs
       ELSE UNCHANGED <<vector_results, logs, calls>>
    /\ pc' = "semantic"
    /\ UNCHANGED <<args, cypher_results, trace, store>>
    /\ UNCHANGED <<nvars, bvars, svars, mvars, avars>>

\* step 2 B: perform_semantic_search when enabled; its exceptions are
\* swallowed
StepVector ==
    /\ pc = "structured"
    /\ IF args.use_vector
       THEN \E out \in IndexOutcomes(TopK) :
               LET r == perform_semantic_search(args.user_query, args.emb_key,
                                                TopK, out)
               IN  /\ calls' = [calls EXCEPT !.index = @ + 1,
                                            !.index_failed = out.fail]
                   /\ IF r.exc # ""
                      THEN UNCHANGED <<vector_results, logs>>
                      ELSE /\ vector_results' = r.val.v
                           /\ logs' = DictSet(logs, "retrieved_vector", r.val)
       ELSE UNCHANGED <<vector_results, logs, calls>>
    /\ pc' = "semantic"
    /\ UNCHANGED <<args, cypher_results, trace, store>>
    /\ UNCHANGED <<nvars, bvars, svars, mvars, avars>>

\* what the generation model does with the prompt
GenerationOutcomes == {InvokeRaised, Responded("Haaland scored 36 goals.")}

\* llm.invoke(final_prompt): the Hugging Face wrapper turns an exception
\* into text, the Google chat model lets it through
llm_invoke(llm, o) == IF llm.v = "hf" THEN HubChatLLM_call(o) ELSE o

NoLlmText == "Error: Could not initialize LLM. Check API keys or Model Name."

\* the dict returned when the model could not be initialised
NoLlmTrace(ctx) ==
    DictV(<<Entry("answer", StrV(NoLlmText)),
            Entry("logs", DictV(logs)),
            Entry("context_used", StrV(ctx))>>)

\* the dict returned after generation
FullTrace(text, ctx) ==
    DictV(<<Entry("answer", StrV(text)),
            Entry("context_used", StrV(ctx)),
            Entry("logs", DictV(logs)),
            Entry("duration", Duration),
            Entry("model_used", StrV(args.llm_key))>>)

\* the invocation without its try block
GeneratedNoCatch(response, ctx) ==
    IF response.raised THEN Raised("RuntimeError")
    ELSE Returned(FullTrace(response.text, ctx))

\* the try block around the invocation and the return after it
Generated(response, ctx) ==
    Returned(FullTrace(IF response.raised
                       THEN "Error during LLM generation: timeout"
                       ELSE response.text, ctx))

\* steps 3 and 4: the context is merged, the model is resolved and invoked
\* once, and the trace is returned
StepGenerate ==
    /\ pc = "semantic"
    /\ \E ctx \in {format_context(cypher_results, vector_results)},
          llm \in {get_llm_instance(args.llm_key, args.google_lib)} :
          IF llm.exc # ""
          THEN /\ trace' = Raised(llm.exc)
               /\ pc' = "raised"
               /\ UNCHANGED calls
          ELSE IF llm.val = NoneV
          THEN /\ trace' = Returned(NoLlmTrace(ctx))
               /\ pc' = "returned"
               /\ UNCHANGED calls
          ELSE \E o \in GenerationOutcomes :
                  /\ trace' = Generated(llm_invoke(llm.val, o), ctx)
                  /\ pc' = IF trace'.exc # "" THEN "raised" ELSE "returned"
                  /\ calls' = [calls EXCEPT !.generation =
                                  Append(@, [prompt |-> final_prompt(ctx, args.user_query),
                                             outcome |-> o])]
    /\ UNCHANGED <<args, logs, cypher_results, vector_results, store>>
    /\ UNCHANGED <<nvars, bvars, svars, mvars, avars>>

Next == StepClassify \/ StepCypher \/ StepVector \/ StepGenerate

Spec == Init /\ [][Next]_vars

(***************************************************************************)
(* Properties of the parameter normalizer (SpecNorm).                      *)
(***************************************************************************)
CanonicalKeys ==
    {"player_name", "player_names", "team", "opponent", "position",
     "position_mapped", "season", "gw", "limit"}

NormReturned == npc = "done" /\ cleaned.exc = ""

\* the raw value that normalization stores under the canonical key: the
\* last raw entry whose renamed key is that key
RenamedKey(k) == IF DictHas(mappings, k) THEN DictGet(mappings, k) ELSE k

RawHasFor(key) ==
    raw.t = "dict" /\ \E i \in 1..Len(raw.v) : RenamedKey(raw.v[i].k) = key

RawFor(key) ==
    LET idx == {i \in 1..Len(raw.v) : RenamedKey(raw.v[i].k) = key}
    IN  raw.v[CHOOSE i \in idx : \A j \in idx : j <= i].v

\* C1: whatever the raw parameters were, the normalized mapping contains
\* every canonical key.
C1_Totality ==
    NormReturned => CanonicalKeys \subseteq DictKeys(cleaned.val)

\* C2: normalize_params never raises, whatever raw value it is handed.
C2_NeverRaises ==
    npc = "done" => cleaned.exc = ""

\* C3: after normalization limit is an integer >= 1, it is 5 when absent
\* or not coercible, and a gw that cannot be coerced is absent.
C3_LimitPositive ==
    NormReturned =>
        /\ DictHas(cleaned.val, "limit")
        /\ DictGet(cleaned.val, "limit").t = "int"
        /\ DictGet(cleaned.val, "limit").v >= 1
        /\ (~RawHasFor("limit") \/ ~PyInt(RawFor("limit")).ok)
               => DictGet(cleaned.val, "limit") = IntV(5)
        /\ (RawHasFor("gw") /\ ~PyInt(RawFor("gw")).ok)
               => ~DictHas(cleaned.val, "gw")

\* C4: after normalization season is a non-empty identifier and never a
\* relative term in any letter case; an explicit identifier is kept.
C4_SeasonIdentifier ==
    NormReturned =>
        /\ DictHas(cleaned.val, "season")
        /\ DictGet(cleaned.val, "season").t = "str"
        /\ Len(DictGet(cleaned.val, "season").v) > 0
        /\ StrV(Lower(DictGet(cleaned.val, "season").v)) \notin RelativeSeasons
        /\ (RawHasFor("season") /\ RawFor("season") = StrV("2023-24"))
               => DictGet(cleaned.val, "season") = StrV("2023-24")

\* C5: a mapping carrying the player only under the alias key player or
\* name normalizes to player_name = that value, player_names = [that
\* value], no alias key, and the defaults for every other canonical key.
AliasOnly ==
    /\ raw.t = "dict"
    /\ Len(raw.v) = 1
    /\ raw.v[1].k \in {"player", "name"}

C5_AliasDerivesList ==
    (npc = "done" /\ AliasOnly) =>
        /\ cleaned.exc = ""
        /\ DictKeys(cleaned.val) = CanonicalKeys
        /\ DictGet(cleaned.val, "player_name") = raw.v[1].v
        /\ DictGet(cleaned.val, "player_names") = ListV(<<raw.v[1].v>>)
        /\ DictGet(cleaned.val, "limit") = IntV(5)
        /\ DictGet(cleaned.val, "season") = StrV("2022-23")
        /\ \A k \in {"team", "opponent", "position", "position_mapped"} :
               DictGet(cleaned.val, k) = StrV("")

\* C6: team and opponent are rewritten to the short name of the first
\* alias, in declaration order of the alias table, that occurs in the
\* lower-cased value; a value containing no alias is left unchanged.
AliasesIn(s) == {i \in 1..Len(team_map) : Contains(team_map[i].k, Lower(s))}

C6_TeamAliasFirstDeclared ==
    NormReturned =>
        \A key \in {"team", "opponent"} :
            (RawHasFor(key) /\ RawFor(key).t = "str") =>
                LET x == RawFor(key).v
                    m == AliasesIn(x)
                    r == DictGet(cleaned.val, key)
                IN  /\ m = {} => r = StrV(x)
                    /\ m # {} =>
                         \E i \in m : /\ \A j \in m : i <= j
                                      /\ r = StrV(team_map[i].v)
                    /\ x = "Manchester City reserves" => r = StrV("Man City")

\* a value holding two aliases, the later declared one first in the text
C6_Witness ==
    /\ NormReturned
    /\ RawHasFor("opponent")
    /\ RawFor("opponent") = StrV("Newcastle v MAN UTD")
    /\ Cardinality(AliasesIn("Newcastle v MAN UTD")) = 2
    /\ DictGet(cleaned.val, "opponent") = StrV("Man Utd")

(***************************************************************************)
(* Properties of the intent classifier and the structured retriever        *)
(* (SpecBaseline), and of the orchestrator (Spec).                         *)
(***************************************************************************)
\* C7: whatever the classifier model answers, classification does not
\* abort process_query: the step after the start is always the retrieval
\* step, never an exception.
C7_ClassificationNeverAborts ==
    [][pc = "start" => pc' = "classified"]_vars

RegistryKeys == DictKeys(CYPHER_TEMPLATES)

\* C8: every intent parse_user_intent returns is "error" or a key of the
\* template registry; an object naming any other intent comes back as
\* the sentinel.
C8_IntentInRegistry ==
    (bpc = "classified" /\ structured_data.val.t = "dict") =>
        LET intent == GetOrNone(structured_data.val.v, "intent")
        IN  /\ intent.t = "str"
            /\ intent.v \in RegistryKeys \cup {"error"}

\* the turn got as far as execute_query
Executed ==
    bpc = "answered" \/ (bpc = "system_error" /\ structured_data.exc = "")

\* execute_query was handed intent data whose intent, trimmed and
\* lower-cased, is no key of the registry
OffRegistry ==
    /\ structured_data.val.t = "dict"
    /\ LET intent == GetOrNone(structured_data.val.v, "intent")
       IN  \/ intent.t # "str"
           \/ Lower(Strip(intent.v)) \notin RegistryKeys

\* C9: for an intent outside the registry the structured retriever
\* returns the empty list, raises nothing and sends no query; every query
\* the store receives is the template of a registry intent.
C9_OffRegistryEmptyList ==
    /\ (Executed /\ OffRegistry) =>
           /\ answer.exc = ""
           /\ answer.val = ListV(<<>>)
           /\ store.queries = <<>>
    /\ \A i \in 1..Len(store.queries) : store.queries[i].intent \in RegistryKeys

\* the text execute_query makes of rows
RowsText(rows) == JoinLines([i \in 1..Len(rows) |-> json_dumps(rows[i])], 1)

\* C10: when the store yields n rows and the normalized limit is L, the
\* structured retriever returns exactly the first min(n, L) of them, in
\* the order of the store.
C10_TruncatedToLimit ==
    (bpc = "answered" /\ Len(store.yields) = 1 /\ store.yields[1].exc = "") =>
        LET rows == store.yields[1].val
            L == DictGet(store.queries[1].params, "limit").v
            kept == Take(rows, L)
        IN  L >= 1 =>
                \/ answer.val = StrV(RowsText(kept))
                \/ kept = <<>> /\ answer.val \in {ListV(<<>>), StrV(NoDataText)}

(***************************************************************************)
(* Properties of the retrieval channels (SpecSearch, Spec).                *)
(***************************************************************************)
\* C11: a failing channel gives an empty list and no exception leaves the
\* retriever: when the index is unavailable semantic_search returns the
\* empty list, and it returns for every outcome of the index.
C11_ChannelFailureDegrades ==
    spc = "done" =>
        /\ main_docs.exc = ""
        /\ found.fail => main_docs.val = ListV(<<>>)

(***************************************************************************)
(* Properties of the context merger (SpecMerge).                           *)
(***************************************************************************)
\* the lines of a text
RECURSIVE Lines(_)
Lines(s) ==
    LET nl == {i \in 1..Len(s) : Ch(s, i) = "\n"}
    IN  IF nl = {} THEN <<s>>
        ELSE <<Slice(s, 1, Least(nl) - 1)>>
                 \o Lines(Slice(s, Least(nl) + 1, Len(s)))

RECURSIVE Keep(_, _, _)
Keep(seq, i, ok) ==
    IF i > Len(seq) THEN <<>>
    ELSE (IF seq[i] \in ok THEN <<seq[i]>> ELSE <<>>) \o Keep(seq, i + 1, ok)

\* a sequence without the repetitions of its members
RECURSIVE FirstSeen(_, _)
FirstSeen(seq, i) ==
    IF i > Len(seq) THEN <<>>
    ELSE (IF \E j \in 1..(i - 1) : seq[j] = seq[i] THEN <<>> ELSE <<seq[i]>>)
             \o FirstSeen(seq, i + 1)

\* the entity key of a row and of a chunk: the player's name, lower-cased
RecordKey(r) ==
    IF DictHas(r.v, "Player") THEN Lower(DictGet(r.v, "Player").v) ELSE ""

RecordLine(r) == "- " \o RecordStr(r.v, 1)
ChunkLine(c) == "- " \o DictGet(c.v, "text").v

\* the rows and chunks handed in, as entity key and rendered line
MergeItems ==
    [i \in 1..Len(merge_in.cypher) |->
        [key |-> RecordKey(merge_in.cypher[i]),
         line |-> RecordLine(merge_in.cypher[i])]]
    \o [i \in 1..Len(merge_in.vector) |->
        [key |-> DocName(merge_in.vector[i]),
         line |-> ChunkLine(merge_in.vector[i])]]

ItemLines == {MergeItems[i].line : i \in 1..Len(MergeItems)}

KeyOfLine(l) ==
    MergeItems[CHOOSE i \in 1..Len(MergeItems) : MergeItems[i].line = l].key

\* the entity keys of the item lines of the context, in rendered order
RenderedKeys ==
    LET items == Keep(Lines(context), 1, ItemLines)
    IN  [i \in 1..Len(items) |-> KeyOfLine(items[i])]

\* C12: the context renders every row and chunk, the items of one entity
\* key together in one group (a chunk without a name under the empty
\* key), and the groups in first-seen order of their keys.
C12_GroupedByEntity ==
    mpc = "done" =>
        /\ Len(RenderedKeys) = Len(MergeItems)
        /\ \A p, q, r \in 1..Len(RenderedKeys) :
               (p < q /\ q < r /\ RenderedKeys[p] = RenderedKeys[r])
                   => RenderedKeys[q] = RenderedKeys[p]
        /\ FirstSeen(RenderedKeys, 1)
               = FirstSeen([i \in 1..Len(MergeItems) |-> MergeItems[i].key], 1)

(***************************************************************************)
(* Properties of the orchestrator (Spec).                                  *)
(***************************************************************************)
Classified == pc \in {"classified", "structured", "semantic", "returned"}

TraceGet(key) == DictGet(trace.val.v, key)

\* C13: the classifier has run once before any retrieval and on every
\* call that returns, whatever use_cypher and use_vector are, and the
\* logs, also those of the returned trace, hold the intent and the
\* parameters it gave.
C13_ClassifierAlwaysRuns ==
    /\ (calls.structured > 0 \/ calls.index > 0 \/ store.queries # <<>>)
           => calls.classifier = 1
    /\ Classified =>
           /\ calls.classifier = 1
           /\ DictGet(logs, "intent")
                  = GetOrNone(calls.intent_data.val.v, "intent")
           /\ DictGet(logs, "cypher_params")
                  = GetOrNone(calls.intent_data.val.v, "parameters")
    /\ pc = "returned" => TraceGet("logs") = DictV(logs)

\* a trace returned with both channels off that records a registry intent
C13_Witness ==
    /\ pc = "returned"
    /\ ~args.use_cypher /\ ~args.use_vector
    /\ calls.classifier = 1
    /\ DictGet(TraceGet("logs").v, "intent") = StrV("player_vs_team")
    /\ DictGet(TraceGet("logs").v, "cypher_params").t = "dict"

\* C14: the structured retriever is invoked only with use_cypher on and
\* an intent that is a key of the registry, the semantic retriever only
\* with use_vector on; a retriever that was not invoked leaves the empty
\* list in the logs and the no-data marker in the context.
C14_RetrieversGated ==
    /\ calls.structured > 0 =>
           args.use_cypher /\ IsTemplate(DictGet(logs, "intent"))
    /\ calls.index > 0 => args.use_vector
    /\ pc = "returned" =>
           /\ calls.structured = 0 =>
                  /\ DictGet(logs, "retrieved_cypher") = ListV(<<>>)
                  /\ Contains(NoRecordsMarker, TraceGet("context_used").v)
           /\ calls.index = 0 =>
                  /\ DictGet(logs, "retrieved_vector") = ListV(<<>>)
                  /\ Contains(NoProfilesMarker, TraceGet("context_used").v)

\* the classification gave an object, so process_query got past step 1
PastClassification ==
    calls.classifier > 0 /\ calls.intent_data.exc = ""
        /\ calls.intent_data.val.t = "dict"

\* the model key is outside the table, or its provider library is missing
ConfigFails ==
    \/ ~DictHas(LLM_CONFIGS, args.llm_key)
    \/ (DictGet(LLM_CONFIGS, args.llm_key) = "google" /\ ~args.google_lib)

\* C15: with a model key that does not resolve, process_query does not
\* raise: it returns a trace whose answer is an error message, and the
\* generation model is not invoked.
C15_ConfigFailureReturns ==
    (PastClassification /\ ConfigFails) =>
        /\ pc # "raised"
        /\ calls.generation = <<>>
        /\ pc = "returned" =>
               /\ TraceGet("answer").t = "str"
               /\ Slice(TraceGet("answer").v, 1, 5) = "Error"

\* C16: every value process_query returns has the answer, the logs with
\* their four entries, the duration and model_used.
C16_TraceShape ==
    pc = "returned" =>
        /\ {"answer", "logs", "duration", "model_used"} \subseteq DictKeys(trace.val.v)
        /\ TraceGet("answer").t = "str"
        /\ DictKeys(TraceGet("logs").v)
               = {"intent", "cypher_params", "retrieved_cypher", "retrieved_vector"}
        /\ TraceGet("duration").t = "float"
        /\ TraceGet("model_used").t = "str"

\* the generation model was invoked and the invocation threw
GenerationThrew ==
    Len(calls.generation) = 1 /\ calls.generation[1].outcome.raised

\* C17: when the invocation of the generation model throws, process_query
\* returns the complete trace: the error text as answer, and the logs, the
\* duration and model_used as after a successful generation.
C17_GenerationFailureReturns ==
    GenerationThrew =>
        /\ pc = "returned"
        /\ DictKeys(trace.val.v)
               = {"answer", "context_used", "logs", "duration", "model_used"}
        /\ TraceGet("answer").t = "str"
        /\ Slice(TraceGet("answer").v, 1, 5) = "Error"
        /\ TraceGet("logs") = DictV(logs)
        /\ TraceGet("duration") = Duration
        /\ TraceGet("model_used") = StrV(args.llm_key)

\* the Google chat model threw and the handler made the answer
C17_Witness ==
    /\ GenerationThrew
    /\ pc = "returned"
    /\ args.llm_key = "gemini"
    /\ TraceGet("answer") = StrV("Error during LLM generation: timeout")

\* neither channel gave anything
NothingRetrieved == cypher_results = <<>> /\ vector_results = <<>>

\* generation took place on the explicit no-data context
GeneratedOnNoData ==
    /\ Len(calls.generation) = 1
    /\ Contains(NoRecordsMarker, calls.generation[1].prompt)
    /\ Contains(NoProfilesMarker, calls.generation[1].prompt)
    /\ ~calls.generation[1].outcome.raised =>
           TraceGet("answer") = StrV(calls.generation[1].outcome.text)

C19_OneCallEach ==
    /\ pc # "start" => calls.classifier = 1
    /\ Len(calls.generation) <= 1
    /\ ConfigFails => calls.generation = <<>>
    /\ (pc = "returned" /\ ~ConfigFails) => Len(calls.generation) = 1

\* the classifier answered text that is no JSON and was not asked again
C19_Witness ==
    /\ pc = "returned"
    /\ calls.classifier = 1
    /\ calls.intent_data.val = ErrorIntent
    /\ Len(calls.generation) = 1

\* C20: semantic_search returns the index results as a stable partition:
\* the chunks whose player name or its last token occurs in the
\* lower-cased question first, the others after them, each part in the
\* order of the index.
C20_StablePartition ==
    (spc = "done" /\ main_docs.exc = "") =>
        main_docs.val = ListV(Matching(user_q, found.docs, 1, TRUE)
                                  \o Matching(user_q, found.docs, 1, FALSE))

(***************************************************************************)
(* Properties of the connection to the graph store (SpecBaseline).         *)
(***************************************************************************)
\* C21: every driver execute_query opens is closed when the call ends,
\* whether rows came back, none came back or the query raised, and no
\* driver is opened for an intent outside the registry.
C21_ConnectionClosed ==
    /\ store.opened = store.closed
    /\ store.opened = Len(store.queries)
    /\ \A i \in 1..Len(store.queries) : store.queries[i].intent \in RegistryKeys
    /\ (Executed /\ OffRegistry) => store.opened = 0

\* a query that raised, its driver opened and closed
C21_Witness ==
    /\ bpc = "answered"
    /\ Len(store.yields) = 1
    /\ store.yields[1].exc # ""
    /\ store.opened = 1
    /\ store.closed = 1

(***************************************************************************)
(* Properties of position canonicalization (SpecNorm).                     *)
(***************************************************************************)
\* the synonym table's code for a raw position, after str() and lower()
PositionKey(v) == Lower(PyStr(v))

PositionMapped(v) == DictHas(pos_map, PositionKey(v))

\* C22: after normalize_params position and position_mapped hold the same
\* value, the synonym table's code for the lower-cased raw position when the
\* table maps it.
C22_SamePosition ==
    NormReturned =>
        /\ DictGet(cleaned.val, "position")
               = DictGet(cleaned.val, "position_mapped")
        /\ (RawHasFor("position") /\ PositionMapped(RawFor("position")))
               => DictGet(cleaned.val, "position")
                      = StrV(DictGet(pos_map, PositionKey(RawFor("position"))))

\* C23: a raw position the synonym table does not map is kept as it is in
\* position_mapped.
C23_UnmappedPreserved ==
    (NormReturned /\ RawHasFor("position")
                  /\ ~PositionMapped(RawFor("position")))
        => DictGet(cleaned.val, "position_mapped") = RawFor("position")

PositionCodes == {StrV("GK"), StrV("DEF"), StrV("MID"), StrV("FWD")}

\* C24: a canonical position code given as the raw position comes back as
\* that code in position and position_mapped, and normalizing the returned
\* mapping again leaves both keys as they were.
C24_PositionIdempotent ==
    /\ (NormReturned /\ RawHasFor("position")
                     /\ RawFor("position") \in PositionCodes)
           => /\ DictGet(cleaned.val, "position") = RawFor("position")
              /\ DictGet(cleaned.val, "position_mapped") = RawFor("position")
    /\ (npc = "again" /\ DictGet(raw.v, "position") \in PositionCodes)
           => /\ cleaned.exc = ""
              /\ DictGet(cleaned.val, "position") = DictGet(raw.v, "position")
              /\ DictGet(cleaned.val, "position_mapped")
                     = DictGet(raw.v, "position_mapped")

\* the mapping returned for the code GK, normalized a second time
C24_Witness ==
    /\ npc = "again"
    /\ cleaned.exc = ""
    /\ DictGet(raw.v, "position") = StrV("GK")
    /\ DictGet(raw.v, "position_mapped") = StrV("GK")
    /\ DictGet(cleaned.val, "position_mapped") = StrV("GK")

(***************************************************************************)
(* Properties of output recovery in the classifier (SpecBaseline).         *)
(***************************************************************************)
\* responses that are an object but for the fence markers around it or a
\* comma before a closing bracket, each with the object it stands for
FencedResponse ==
    FENCE \o "json\n{\"intent\": \"player_summary\", \"parameters\": {\"name\": \"Haaland\",}}\n" \o FENCE

FencedObject ==
    IntentData(StrV("player_summary"),
               DictV(<<Entry("name", StrV("Haaland"))>>))

TrailingCommaResponse ==
    "{\"intent\": \"compare_players\", \"parameters\": {\"player_names\": [\"Salah\", \"Saka\",]}}"

TrailingCommaObject ==
    IntentData(StrV("compare_players"),
               DictV(<<Entry("player_names",
                             ListV(<<StrV("Salah"), StrV("Saka")>>))>>))

ClassifierReturned == bpc # "ask" /\ bpc # "idle" /\ structured_data.exc = ""

\* C25: a response that is an object but for code-fence markers and commas
\* before a closing bracket is classified as that object, and a response
\* that is a valid object already is classified as the value it parses to,
\* also when a string value of it holds a comma followed by a closing
\* bracket.
C25_OutputRecovery ==
    ClassifierReturned =>
        /\ raw_response = FencedResponse
               => structured_data.val = FencedObject
        /\ raw_response = TrailingCommaResponse
               => structured_data.val = TrailingCommaObject
        /\ \A r \in {json_loads(raw_response)} :
               (r.exc = "" /\ r.val.t = "dict") => structured_data.val = r.val

(***************************************************************************)
(* Traceability of the returned context (Spec).                            *)
(***************************************************************************)
\* the structured channel ran and the store answered its query
CypherAnswered ==
    /\ args.use_cypher
    /\ calls.structured = 1
    /\ Len(store.yields) = 1
    /\ store.yields[1].exc = ""

\* the semantic channel ran and the index answered the search
VectorAnswered ==
    /\ args.use_vector
    /\ calls.index = 1
    /\ ~calls.index_failed

LoggedList(key) == DictGet(TraceGet("logs").v, key)

\* C26: in every returned trace the context is the merge of exactly the
\* rows and chunks held in the trace's logs, in their order; a channel that
\* was disabled, skipped or failed has the empty list in the logs and its
\* no-data marker in the context, and a non-empty logged list never comes
\* with the marker of its channel.
C26_ContextFromLogs ==
    pc = "returned" =>
        \A lc \in {LoggedList("retrieved_cypher")},
           lv \in {LoggedList("retrieved_vector")},
           ctx \in {TraceGet("context_used")} :
            /\ lc.t = "list" /\ lv.t = "list" /\ ctx.t = "str"
            /\ ctx.v = format_context(lc.v, lv.v)
            /\ ~CypherAnswered =>
                   lc.v = <<>> /\ Contains(NoRecordsMarker, ctx.v)
            /\ ~VectorAnswered =>
                   lv.v = <<>> /\ Contains(NoProfilesMarker, ctx.v)
            /\ lc.v # <<>> => ~Contains(NoRecordsMarker, ctx.v)
            /\ lv.v # <<>> => ~Contains(NoProfilesMarker, ctx.v)

\* a trace returned with rows and chunks logged and both rendered
C26_Witness ==
    /\ pc = "returned"
    /\ CypherAnswered /\ VectorAnswered
    /\ Len(LoggedList("retrieved_cypher").v) = 2
    /\ Len(LoggedList("retrieved_vector").v) = 2
    /\ TraceGet("context_used").v
           = format_context(cypher_results, vector_results)
    /\ ~Contains(NoRecordsMarker, TraceGet("context_used").v)
    /\ ~Contains(NoProfilesMarker, TraceGet("context_used").v)

(***************************************************************************)
(* The chat page of app.py: the sidebar and the chat input handler.  The   *)
(* script runs again after every interaction; a widget keeps its value     *)
(* while it is rendered, and a selectbox that is not rendered either keeps *)
(* its value or is back on its first option when it is rendered again.     *)
(***************************************************************************)
\* chat inputs handled in one session
MaxTurns == 2

\* list(LLM_CONFIGS.keys())
LlmOptions == [i \in 1..Len(LLM_CONFIGS) |-> LLM_CONFIGS[i].k]

\* list(EMBEDDING_CONFIGS.keys())
EmbOptions == <<"minilm", "bge">>

Options(seq) == {seq[i] : i \in 1..Len(seq)}

is_hybrid == use_cypher /\ use_vector

\* the model key without the lock on single-source queries
llm_choice_unlocked == llm_widget

llm_choice == IF is_hybrid THEN llm_widget ELSE "gemma"

emb_choice == IF use_vector THEN emb_widget ELSE "minilm"

\* the selectboxes after a run of the script with the boxes as given
Rerendered(cypher, vector) ==
    /\ llm_widget' \in IF cypher /\ vector THEN {llm_widget}
                       ELSE {llm_widget, LlmOptions[1]}
    /\ emb_widget' \in IF vector THEN {emb_widget}
                       ELSE {emb_widget, EmbOptions[1]}

AppInit ==
    /\ AppIdle
    /\ store = NewStore
    /\ NormIdle
    /\ BaseIdle
    /\ HybridIdle
    /\ SearchIdle
    /\ MergeIdle

ToggleCypher ==
    /\ use_cypher' = ~use_cypher
    /\ Rerendered(use_cypher', use_vector)
    /\ UNCHANGED <<use_vector, messages, requests>>
    /\ UNCHANGED <<nvars, bvars, store, hvars, svars, mvars>>

ToggleVector ==
    /\ use_vector' = ~use_vector
    /\ Rerendered(use_cypher, use_vector')
    /\ UNCHANGED <<use_cypher, messages, requests>>
    /\ UNCHANGED <<nvars, bvars, store, hvars, svars, mvars>>

\* the model selectbox is there only for hybrid retrieval
SelectLlm ==
    /\ is_hybrid
    /\ \E k \in Options(LlmOptions) : llm_widget' = k
    /\ UNCHANGED <<use_cypher, use_vector, emb_widget, messages, requests>>
    /\ UNCHANGED <<nvars, bvars, store, hvars, svars, mvars>>

\* the embedding selectbox is there only with the semantic channel
SelectEmb ==
    /\ use_vector
    /\ \E k \in Options(EmbOptions) : emb_widget' = k
    /\ UNCHANGED <<use_cypher, use_vector, llm_widget, messages, requests>>
    /\ UNCHANGED <<nvars, bvars, store, hvars, svars, mvars>>

\* the button "Clear Chat History"
ClearChat ==
    /\ messages' = <<>>
    /\ UNCHANGED <<use_cypher, use_vector, llm_widget, emb_widget, requests>>
    /\ UNCHANGED <<nvars, bvars, store, hvars, svars, mvars>>

AppPrompts == {"how did haaland do"}

\* a chat input: the user message is stored, process_query is called with
\* the sidebar's choices, and its answer is stored unless it raised
Submit ==
    /\ Len(requests) < MaxTurns
    /\ \E prompt \in AppPrompts, returned \in BOOLEAN :
          /\ requests' = Append(requests,
                            [user_query |-> prompt,
                             llm_key |-> llm_choice,
                             emb_key |-> emb_choice,
                             use_cypher |-> use_cypher,
                             use_vector |-> use_vector])
          /\ messages' = messages \o <<"user">>
                             \o (IF returned THEN <<"assistant">> ELSE <<>>)
    /\ UNCHANGED <<use_cypher, use_vector, llm_widget, emb_widget>>
    /\ UNCHANGED <<nvars, bvars, store, hvars, svars, mvars>>

AppNext ==
    ToggleCypher \/ ToggleVector \/ SelectLlm \/ SelectEmb \/ ClearChat \/ Submit

SpecApp == AppInit /\ [][AppNext]_vars

\* C27: every process_query call made with a channel disabled carries the
\* model key "gemma", every call made with the semantic channel disabled
\* carries the embedding key "minilm", and a call carries another model key
\* only with both channels enabled, then one of the selectbox's options.
C27_KeysLocked ==
    \A i \in 1..Len(requests) :
        /\ ~(requests[i].use_cypher /\ requests[i].use_vector)
               => requests[i].llm_key = "gemma"
        /\ ~requests[i].use_vector => requests[i].emb_key = "minilm"
        /\ requests[i].llm_key \in Options(LlmOptions)
        /\ requests[i].emb_key \in Options(EmbOptions)

\* a call with the structured channel disabled after another model and
\* another embedding model were selected
C27_Witness ==
    /\ Len(requests) = 1
    /\ ~requests[1].use_cypher
    /\ requests[1].use_vector
    /\ llm_widget = "gemini"
    /\ requests[1].llm_key = "gemma"
    /\ requests[1].emb_key = "bge"

====
